---- MODULE Spec2Model ----
(***************************************************************************)
(* A model of rosreact: the connection lifecycle of RosConnection.tsx      *)
(* (callback registration, reconnect timers), the reference-counted        *)
(* ManagedTopic with the usePublisher hook, and the per-owner message      *)
(* callback of useSubscription.                                            *)
(***************************************************************************)
EXTENDS Integers, Sequences, FiniteSets, TLC

(***************************************************************************)
(* Bounds of the model.                                                    *)
(***************************************************************************)
MaxSetups == 2      \* calls of setupConnectionCallbacks; also the callback identities
MaxErrors == 1      \* 'error' events of the transport
TimeoutTicks == 2   \* autoConnectTimeout, in ticks of the clock
MaxPending == 1     \* 'error' events whose retry timers are pending at one time
MaxCounted == 3     \* 'error' events the retry loop counts
MaxAdds == 4        \* direct calls of addCallback
MaxListeners == 2   \* subscribers of the topic
MaxMsgs == 4        \* inbound messages of a subscription
MaxVal == 4         \* inbound messages are {value: 1} .. {value: MaxVal}

Events == {"connection", "close", "error"}
CbIds == 1..MaxSetups
Observers == {"o1", "o2"}
Hooks == {"h1", "h2"}           \* usePublisher hooks, by hookId
DirectOwners == {"p1", "p2"}    \* owner ids passed to advertise/unadvertise directly
OwnerIds == Hooks \cup DirectOwners

VARIABLES
    ros,        \* the Ros instance: connectorCallbacks, the transport's listeners, the socket
    onCalls,    \* ros.on invocations per event and callback since the last teardown
    addCalls,   \* addCallback invocations per event and callback since the last teardown
    env,        \* what the closures of the k-th setupConnectionCallbacks call captured
    nSetups,    \* number of setupConnectionCallbacks calls so far
    mounted,    \* the RosConnection effects that are mounted (by setup number)
    timers,     \* pending setTimeout callbacks of errorCB
    nErrors,    \* number of 'error' events so far
    errLog,     \* per 'error' event: the reconnects it led to, and whether it saw the connection dormant
    lastEvent,  \* the last transport event and the reactions it triggered
    lastConnect,\* the setup whose parameters the last connect() was called with
    lastConn,   \* the last operation on the connection
    topic,      \* the ManagedTopic: publishers, and isAdvertised and listeners of its Topic
    hooks,      \* per usePublisher hook: its props and the state of its publish effect
    lastTopic,  \* the last operation on the topic, the state before it and what it issued
    sub,        \* a useSubscription owner: its props, its message state and messageRef
    inbox,      \* the inbound messages so far, in arrival order
    delivered,  \* the values handed to customCallback so far, in order
    accepted,   \* the inbound messages the comparison did not suppress, in order
    lastSub,    \* the last inbound message and what messageCallback did with it
    lastUse,    \* the last useRos call: the provider enclosing the caller and the outcome
    peer,       \* a second useSubscription owner of the same topic, and what it was delivered
    starts      \* the state each of the two owners subscribed with

connVars == <<ros, onCalls, addCalls, env, nSetups, mounted, timers,
              nErrors, errLog, lastEvent, lastConnect, lastConn>>

topicVars == <<topic, hooks, lastTopic>>

subVars == <<sub, inbox, delivered, accepted, lastSub>>

ctxVars == <<lastUse>>

peerVars == <<peer, starts>>

vars == <<connVars, topicVars, subVars, ctxVars, peerVars>>

(***************************************************************************)
(* RosConnection.tsx                                                       *)
(***************************************************************************)
EmptyMap == [e \in {} |-> {}]

\* ros.connectorCallbacks.get(event), undefined read as the empty set
cbSet(r, event) ==
    IF event \in DOMAIN r.connectorCallbacks THEN r.connectorCallbacks[event] ELSE {}

\* ros.on(event, cb): the emitter appends the listener, duplicates included
rosOn(r, event, cb) == [r EXCEPT !.listeners[event][cb] = @ + 1]

\* ros.off(event, cb): the emitter removes one occurrence of the listener
rosOff(r, event, cb) ==
    [r EXCEPT !.listeners[event][cb] = IF @ > 0 THEN @ - 1 ELSE @]

\* mutant: the check for an already registered callback is missing
addCallbackAlways(r, event, cb) == TRUE

\* whether addCallback reaches ros.on (the callback is not yet in the event's set)
addCallbackRegisters(r, event, cb) == cb \notin cbSet(r, event)

addCallback(r, event, cb) ==
    LET cbs == cbSet(r, event)
        created == [e \in DOMAIN r.connectorCallbacks \cup {event} |->
                       IF e = event THEN cbs ELSE r.connectorCallbacks[e]]
        r1 == [r EXCEPT !.connectorCallbacks = created]
    IN  IF ~addCallbackRegisters(r, event, cb)
        THEN r1
        ELSE rosOn([r1 EXCEPT !.connectorCallbacks[event] = cbs \cup {cb}], event, cb)

\* the closures of the k-th call are callbacks no earlier call created
setupConnectionCallbacks(r, k) ==
    addCallback(addCallback(addCallback(r, "connection", k), "close", k), "error", k)

\* mutant: connect registers a 'connection' callback of its own on every call
connectRegisters(r) == rosOn([r EXCEPT !.sock = "connecting"], "connection", 1)

\* ros.connect(url), and ros.authenticate when asked for: no callback is touched
connect(r) == [r EXCEPT !.sock = "connecting"]

RECURSIVE offAll(_, _, _)
offAll(r, event, cbs) ==
    IF cbs = {} THEN r
    ELSE LET cb == CHOOSE c \in cbs : TRUE
         IN  offAll(rosOff(r, event, cb), event, cbs \ {cb})

RECURSIVE offEvents(_, _)
offEvents(r, events) ==
    IF events = {} THEN r
    ELSE LET e == CHOOSE x \in events : TRUE
         IN  offEvents(offAll(r, e, r.connectorCallbacks[e]), events \ {e})

\* mutant: the map is cleared but the callbacks stay registered on the transport
closeConnectionNoOff(r) == [r EXCEPT !.sock = "closed", !.connectorCallbacks = EmptyMap]

closeConnection(r) ==
    LET closed == [r EXCEPT !.sock = "closed"]
        off == offEvents(closed, DOMAIN closed.connectorCallbacks)
    IN  [off EXCEPT !.connectorCallbacks = EmptyMap]

\* ros.connectorCallbacks.size === 0
isDormant(r) == Cardinality(DOMAIN r.connectorCallbacks) = 0

NoCount == [e \in Events |-> [cb \in CbIds |-> 0]]
NoEnv == [autoConnect |-> FALSE, observer |-> "none"]
NoEvent == [ev |-> "none", notified |-> [o \in Observers |-> 0], scheduled |-> 0]

ConnInit ==
    /\ ros = [connectorCallbacks |-> EmptyMap, listeners |-> NoCount, sock |-> "closed"]
    /\ onCalls = NoCount
    /\ addCalls = NoCount
    /\ env = [k \in CbIds |-> NoEnv]
    /\ nSetups = 0
    /\ mounted = {}
    /\ timers = {}
    /\ nErrors = 0
    /\ errLog = <<>>
    /\ lastEvent = NoEvent
    /\ lastConnect = 0
    /\ lastConn = "init"

\* The effect of RosConnection: setupConnectionCallbacks, then connect.
Mount(obs, ac) ==
    /\ nSetups < MaxSetups
    /\ LET k == nSetups + 1
           r1 == setupConnectionCallbacks(ros, k)
       IN  /\ ros' = connect(r1)
           /\ onCalls' = [e \in Events |-> [cb \in CbIds |->
                   onCalls[e][cb] + (r1.listeners[e][cb] - ros.listeners[e][cb])]]
           /\ addCalls' = [e \in Events |-> [cb \in CbIds |->
                   addCalls[e][cb] + (IF cb = k THEN 1 ELSE 0)]]
           /\ env' = [env EXCEPT ![k] = [autoConnect |-> ac, observer |-> obs]]
           /\ nSetups' = k
           /\ mounted' = mounted \cup {k}
           /\ lastConnect' = k
           /\ lastConn' = "mount"
    /\ UNCHANGED <<timers, nErrors, errLog, lastEvent>>
    /\ UNCHANGED <<topicVars, subVars, ctxVars, peerVars>>

\* errors with a timer whose delay has not elapsed see the connection go dormant
markDormant(log) ==
    [e \in DOMAIN log |->
        IF \E t \in timers : t.err = e /\ t.left > 0
        THEN [log[e] EXCEPT !.dormant = TRUE] ELSE log[e]]

\* The cleanup of the effect of RosConnection: closeConnection.
Unmount(k) ==
    /\ k \in mounted
    /\ ros' = closeConnection(ros)
    /\ onCalls' = NoCount
    /\ addCalls' = NoCount
    /\ mounted' = mounted \ {k}
    /\ errLog' = markDormant(errLog)
    /\ lastConn' = "unmount"
    /\ UNCHANGED <<env, nSetups, timers, nErrors, lastEvent, lastConnect>>
    /\ UNCHANGED <<topicVars, subVars, ctxVars, peerVars>>

RECURSIVE sumOver(_, _)
sumOver(f, S) ==
    IF S = {} THEN 0
    ELSE LET x == CHOOSE y \in S : TRUE IN f[x] + sumOver(f, S \ {x})

\* how often one transport event invokes the handlers that notify an observer
notifications(r, event) ==
    [o \in Observers |->
        sumOver([k \in CbIds |-> IF env[k].observer = o THEN r.listeners[event][k] ELSE 0],
                CbIds)]

\* a 'connection' event: connectCB of every registered listener
EvConnection ==
    /\ ros.sock = "connecting"
    /\ ros' = [ros EXCEPT !.sock = "open"]
    /\ lastEvent' = [ev |-> "connection", notified |-> notifications(ros, "connection"),
                     scheduled |-> 0]
    /\ lastConn' = "connection"
    /\ UNCHANGED <<onCalls, addCalls, env, nSetups, mounted, timers, nErrors,
                   errLog, lastConnect>>
    /\ UNCHANGED <<topicVars, subVars, ctxVars, peerVars>>

\* a 'close' event: closeCB of every registered listener
EvClose ==
    /\ ros.sock = "open"
    /\ ros' = [ros EXCEPT !.sock = "closed"]
    /\ lastEvent' = [ev |-> "close", notified |-> notifications(ros, "close"),
                     scheduled |-> 0]
    /\ lastConn' = "close"
    /\ UNCHANGED <<onCalls, addCalls, env, nSetups, mounted, timers, nErrors,
                   errLog, lastConnect>>
    /\ UNCHANGED <<topicVars, subVars, ctxVars, peerVars>>

\* mutant: errorCB gives up after two errors
errorTimersCapped(r, e) ==
    {t \in [err : {e}, k : CbIds, i : 1..MaxSetups, left : {TimeoutTicks}] :
        env[t.k].autoConnect /\ t.i <= r.listeners["error"][t.k] /\ nErrors < 2}

\* the timers the errorCB listeners of one 'error' event start
errorTimers(r, e) ==
    {t \in [err : {e}, k : CbIds, i : 1..MaxSetups, left : {TimeoutTicks}] :
        env[t.k].autoConnect /\ t.i <= r.listeners["error"][t.k]}

\* an 'error' event: errorCB of every registered listener
EvError ==
    /\ ros.sock \in {"connecting", "open"}
    /\ nErrors < MaxErrors
    /\ LET e == nErrors + 1
           started == errorTimers(ros, e)
       IN  /\ nErrors' = e
           /\ timers' = timers \cup started
           /\ errLog' = Append(errLog, [attempts |-> 0, early |-> FALSE, dormant |-> FALSE])
           /\ lastEvent' = [ev |-> "error", notified |-> notifications(ros, "error"),
                            scheduled |-> Cardinality(started)]
    /\ ros' = [ros EXCEPT !.sock = "closed"]
    /\ lastConn' = "error"
    /\ UNCHANGED <<onCalls, addCalls, env, nSetups, mounted, lastConnect>>
    /\ UNCHANGED <<topicVars, subVars, ctxVars, peerVars>>

\* setTimeout runs its callback no earlier than the delay
timerDue(t) == t.left = 0

\* the setTimeout callback of errorCB
FireTimer(t) ==
    /\ t \in timers
    /\ timerDue(t)
    /\ timers' = timers \ {t}
    /\ IF isDormant(ros)
       THEN UNCHANGED <<ros, errLog, lastConnect>>
       ELSE /\ ros' = connect(ros)
            /\ lastConnect' = t.k
            /\ errLog' = [errLog EXCEPT ![t.err].attempts = @ + 1,
                              ![t.err].early = @ \/ t.left > 0]
    /\ lastConn' = IF isDormant(ros) THEN "skip" ELSE "reconnect"
    /\ UNCHANGED <<onCalls, addCalls, env, nSetups, mounted, nErrors, lastEvent>>
    /\ UNCHANGED <<topicVars, subVars, ctxVars, peerVars>>

\* one tick of the clock: every running delay shortens by one
Tick ==
    /\ \E t \in timers : t.left > 0
    /\ timers' = {[t EXCEPT !.left = IF @ > 0 THEN @ - 1 ELSE 0] : t \in timers}
    /\ UNCHANGED <<ros, onCalls, addCalls, env, nSetups, mounted, nErrors,
                   errLog, lastEvent, lastConnect, lastConn>>
    /\ UNCHANGED <<topicVars, subVars, ctxVars, peerVars>>

ConnNext ==
    \/ \E obs \in Observers, ac \in BOOLEAN : Mount(obs, ac)
    \/ \E k \in CbIds : Unmount(k)
    \/ EvConnection
    \/ EvClose
    \/ EvError
    \/ \E t \in timers : FireTimer(t)
    \/ Tick


(***************************************************************************)
(* The retry loop without a bound on the number of 'error' events: an      *)
(* error takes a number no pending timer carries, and errLog holds the     *)
(* record of the latest error of each number.                              *)
(***************************************************************************)
NoLog == [attempts |-> 0, early |-> FALSE, dormant |-> FALSE]

ConnRetryInit ==
    /\ ros = [connectorCallbacks |-> EmptyMap, listeners |-> NoCount, sock |-> "closed"]
    /\ onCalls = NoCount
    /\ addCalls = NoCount
    /\ env = [k \in CbIds |-> NoEnv]
    /\ nSetups = 0
    /\ mounted = {}
    /\ timers = {}
    /\ nErrors = 0
    /\ errLog = [e \in 1..MaxPending |-> NoLog]
    /\ lastEvent = NoEvent
    /\ lastConnect = 0
    /\ lastConn = "init"

freeErrors == {e \in 1..MaxPending : \A t \in timers : t.err # e}

\* an 'error' event: errorCB of every registered listener
EvErrorRetry ==
    /\ ros.sock \in {"connecting", "open"}
    /\ freeErrors # {}
    /\ LET e == CHOOSE x \in freeErrors : \A y \in freeErrors : x <= y
           started == errorTimers(ros, e)
       IN  /\ nErrors' = IF nErrors < MaxCounted THEN nErrors + 1 ELSE nErrors
           /\ timers' = timers \cup started
           /\ errLog' = [errLog EXCEPT ![e] = NoLog]
           /\ lastEvent' = [ev |-> "error", notified |-> notifications(ros, "error"),
                            scheduled |-> Cardinality(started)]
    /\ ros' = [ros EXCEPT !.sock = "closed"]
    /\ lastConn' = "error"
    /\ UNCHANGED <<onCalls, addCalls, env, nSetups, mounted, lastConnect>>
    /\ UNCHANGED <<topicVars, subVars, ctxVars, peerVars>>

RetryNext ==
    \/ \E ac \in BOOLEAN : Mount("o1", ac)
    \/ \E k \in CbIds : Unmount(k)
    \/ EvConnection
    \/ EvClose
    \/ EvErrorRetry
    \/ \E t \in timers : FireTimer(t)
    \/ Tick

\* a pending setTimeout callback runs once its delay has elapsed
TimerFairness ==
    /\ WF_vars(Tick)
    /\ WF_vars(\E t \in timers : FireTimer(t))


(***************************************************************************)
(* addCallback and closeConnection called directly, with callbacks of any  *)
(* identity (a caller that keeps its callbacks and passes them again).     *)
(***************************************************************************)
totalAdds == sumOver([e \in Events |-> sumOver(addCalls[e], CbIds)], Events)

CallAddCallback(event, cb) ==
    /\ totalAdds < MaxAdds
    /\ ros' = addCallback(ros, event, cb)
    /\ onCalls' = [onCalls EXCEPT ![event][cb] =
                       @ + (ros'.listeners[event][cb] - ros.listeners[event][cb])]
    /\ addCalls' = [addCalls EXCEPT ![event][cb] = @ + 1]
    /\ lastConn' = "addCallback"
    /\ UNCHANGED <<env, nSetups, mounted, timers, nErrors, errLog, lastEvent, lastConnect>>
    /\ UNCHANGED <<topicVars, subVars, ctxVars, peerVars>>

CallCloseConnection ==
    /\ ros' = closeConnection(ros)
    /\ onCalls' = NoCount
    /\ addCalls' = NoCount
    /\ lastConn' = "closeConnection"
    /\ UNCHANGED <<env, nSetups, mounted, timers, nErrors, errLog, lastEvent, lastConnect>>
    /\ UNCHANGED <<topicVars, subVars, ctxVars, peerVars>>

CbNext ==
    \/ \E event \in Events, cb \in CbIds : CallAddCallback(event, cb)
    \/ CallCloseConnection


(***************************************************************************)
(* The shared connection context: RosContext, the provider RosConnection   *)
(* renders, and useRos.                                                    *)
(***************************************************************************)
Undefined == "undefined"
NoProvider == 0

\* createContext(getRosObject(DefaultRosProps.url)): the context's default value
RosContext == "ros of the default url"

\* useContext(RosContext) of a caller enclosed by the provider of owner k, or by none
useContext(k) == IF k = NoProvider THEN RosContext ELSE "ros of the provider"

useRos(k) ==
    LET r == useContext(k)
    IN  IF r = Undefined
        THEN [called |-> TRUE, provider |-> k, thrown |-> TRUE, ros |-> Undefined]
        ELSE [called |-> TRUE, provider |-> k, thrown |-> FALSE, ros |-> r]

CtxInit == lastUse = [called |-> FALSE, provider |-> NoProvider, thrown |-> FALSE, ros |-> Undefined]

\* a component calls useRos, enclosed by the provider of a mounted RosConnection or by none
UseRos(k) ==
    /\ k \in mounted \cup {NoProvider}
    /\ lastUse' = useRos(k)
    /\ UNCHANGED <<connVars, topicVars, subVars, peerVars>>

CtxNext ==
    \/ \E obs \in Observers, ac \in BOOLEAN : Mount(obs, ac)
    \/ \E k \in CbIds : Unmount(k)
    \/ \E k \in CbIds \cup {NoProvider} : UseRos(k)


(***************************************************************************)
(* Claims about the connection.                                            *)
(***************************************************************************)

\* C1: however often addCallback(ros, event, cb) is called for an event and a
\* callback identity, the transport holds exactly one registration of cb for
\* that event: only the first call reaches ros.on, later calls are no-ops.
C1_OneRegistration ==
    \A event \in Events, cb \in CbIds :
        /\ addCalls[event][cb] >= 1 =>
               /\ ros.listeners[event][cb] = 1
               /\ onCalls[event][cb] = 1
               /\ cb \in cbSet(ros, event)
        /\ addCalls[event][cb] = 0 =>
               /\ ros.listeners[event][cb] = 0
               /\ onCalls[event][cb] = 0

\* the same callback has been passed three times for one event
C1_Witness ==
    \E event \in Events, cb \in CbIds :
        addCalls[event][cb] >= 3 /\ ros.listeners[event][cb] = 1

\* C2: with autoConnect, an 'error' event leads to at most one reconnection
\* attempt, none of them before the delay has elapsed, and to none at all once
\* the connection went dormant before the delay elapsed.
C2_OneReconnectPerError ==
    \A e \in DOMAIN errLog :
        /\ errLog[e].attempts <= 1
        /\ ~errLog[e].early
        /\ errLog[e].dormant => errLog[e].attempts = 0

\* C10: after closeConnection the transport is closed, no callback is left
\* registered on it and the callback map is empty.
C10_TeardownClearsAll ==
    lastConn = "unmount" =>
        /\ ros.sock = "closed"
        /\ ros.connectorCallbacks = EmptyMap
        /\ \A event \in Events, cb \in CbIds : ros.listeners[event][cb] = 0

\* a teardown that found the callbacks of two setups registered
C10_Witness ==
    /\ lastConn = "unmount"
    /\ mounted # {}
    /\ \A event \in Events, cb \in CbIds : ros.listeners[event][cb] = 0

\* C11: whatever setupConnectionCallbacks and closeConnection calls came
\* before, one transport event notifies a connection-state observer at most
\* once, and one 'error' event schedules at most one retry.
C11_AtMostOneReaction ==
    (lastEvent.ev # "none" /\ \A k \in 1..nSetups : env[k].observer = env[1].observer) =>
        /\ \A o \in Observers : lastEvent.notified[o] <= 1
        /\ lastEvent.scheduled <= 1

\* C12: a reconnect timer whose delay had not elapsed when closeConnection
\* completed issues no connect afterwards, also when a later setup registered
\* callbacks again before the delay elapsed.
C12_TeardownCancelsTimers ==
    \A e \in DOMAIN errLog :
        errLog[e].dormant => errLog[e].attempts = 0

\* an 'error' event has just run an errorCB whose owner enabled autoConnect
errorWithAutoConnect ==
    /\ lastConn = "error"
    /\ \E k \in CbIds : ros.listeners["error"][k] > 0 /\ env[k].autoConnect

\* C13: under fair timers, every 'error' event that reaches an owner with
\* autoConnect is followed by another connect attempt unless the connection
\* goes dormant, however many errors came before: there is no retry cap.
C13_ErrorLeadsToRetry ==
    errorWithAutoConnect ~> (lastConn = "reconnect" \/ isDormant(ros))

\* the retry after the last of MaxCounted errors of a single owner
C13_Witness ==
    /\ lastConn = "reconnect"
    /\ nErrors = MaxCounted
    /\ nSetups = 1
    /\ ~isDormant(ros)

\* C16: a reconnection attempt calls connect with the parameters of the setup
\* whose errorCB started the timer and nothing else: the callback map and the
\* registrations on the transport are the same before and after it.
C16_ReconnectOnlyConnects ==
    [][\A t \in timers :
          (timers' = timers \ {t} /\ lastConn' = "reconnect") =>
              /\ lastConnect' = t.k
              /\ ros'.sock = "connecting"
              /\ ros'.connectorCallbacks = ros.connectorCallbacks
              /\ ros'.listeners = ros.listeners]_vars

\* the retry after a second error, issued with the parameters of the first of
\* two setups, with each setup's callbacks registered once
C16_Witness ==
    /\ lastConn = "reconnect"
    /\ nErrors >= 2
    /\ nSetups = 2
    /\ lastConnect = 1
    /\ \A event \in Events, cb \in CbIds : ros.listeners[event][cb] = 1

\* C14: a useRos call of a caller that no RosConnection provider encloses
\* raises an error and returns no connection.
C14_NoProviderRaises ==
    (lastUse.called /\ lastUse.provider = NoProvider) =>
        lastUse.thrown /\ lastUse.ros = Undefined

\* C19: with two RosConnection owners of one url mounted, the teardown of one
\* leaves the callbacks of the other registered: every owner that is still
\* mounted has its 'connection', 'close' and 'error' callbacks on the transport.
C19_OtherOwnerKeepsCallbacks ==
    \A k \in mounted : \A event \in Events :
        /\ ros.listeners[event][k] >= 1
        /\ k \in cbSet(ros, event)

(***************************************************************************)
(* ManagedTopic, the advertise/unadvertise/subscribe helpers and the       *)
(* usePublisher hook.                                                      *)
(***************************************************************************)
\* mutant: the new owner replaces the set of owners
addPublisherReplace(t, uuid) == [t EXCEPT !.publishers = {uuid}]

\* this.publishers.add(uuid)
addPublisher(t, uuid) == [t EXCEPT !.publishers = @ \cup {uuid}]

\* the advertise helper issues the physical advertise for the first owner
advertiseIssues(t, ownerId) == t.publishers = {}

\* advertise(topic, ownerId) of the topic helpers
advertise(t, ownerId) ==
    addPublisher(IF advertiseIssues(t, ownerId) THEN [t EXCEPT !.isAdvertised = TRUE] ELSE t,
                 ownerId)

\* mutant: the topic is unadvertised whenever an owner is released
removePublisherAlways(t, uuid) == t.isAdvertised

\* mutant: the last owner out leaves the topic advertised
removePublisherNever(t, uuid) == FALSE

\* this.publishers.size === 0 && this.topic.isAdvertised, after the delete
removePublisherUnadvertises(t, uuid) ==
    Cardinality(t.publishers \ {uuid}) = 0 /\ t.isAdvertised

removePublisher(t, uuid) ==
    [t EXCEPT !.publishers = @ \ {uuid},
              !.isAdvertised = IF removePublisherUnadvertises(t, uuid) THEN FALSE ELSE @]

\* unadvertise(topic, ownerId) of the topic helpers
unadvertise(t, ownerId) == removePublisher(t, ownerId)

\* this.topic.hasListeners()
hasListeners(t) == t.listeners > 0

\* mutant: the listeners are not looked at
canBeRemovedNoListeners(t) == ~t.isAdvertised /\ Cardinality(t.publishers) = 0

canBeRemoved(t) ==
    ~hasListeners(t) /\ ~t.isAdvertised /\ Cardinality(t.publishers) = 0

\* subscribe and unsubscribe of the topic helpers
subscribe(t) == [t EXCEPT !.listeners = @ + 1]
unsubscribe(t) == [t EXCEPT !.listeners = @ - 1]

Unmounted == [mounted |-> FALSE, autoRepeat |-> FALSE, message |-> FALSE,
              interval |-> FALSE, intervalStarted |-> FALSE]

\* the publish effect: with a message, an interval (autoRepeat) or one publish
publishEffect(ar, msg) ==
    [mounted |-> TRUE, autoRepeat |-> ar, message |-> msg,
     interval |-> msg /\ ar, intervalStarted |-> FALSE]

\* publishes of the publish effect itself
effectPublishes(ar, msg) == IF msg /\ ~ar THEN 1 ELSE 0

\* mutant: the cleanup leaves the interval running
clearIntervalNot(hk) == hk

\* clearInterval(intervalId) of the cleanup
clearInterval(hk) == [hk EXCEPT !.interval = FALSE]

\* mutant: the cleanup does not look at intervalStarted
finalPublishAlways(t, hk) == hk.autoRepeat /\ hk.message /\ t.isAdvertised

\* the cleanup of the publish effect publishes the pending message
finalPublish(t, hk) ==
    hk.autoRepeat /\ ~hk.intervalStarted /\ hk.message /\ t.isAdvertised

\* publishes of the cleanup; an effect that returned early has no cleanup
cleanupPublishes(t, hk) == IF hk.message /\ finalPublish(t, hk) THEN 1 ELSE 0

TopicInit ==
    /\ topic = [publishers |-> {}, isAdvertised |-> FALSE, listeners |-> 0]
    /\ hooks = [h \in Hooks |-> Unmounted]
    /\ lastTopic = [op |-> "init", who |-> "-", pre |-> topic, preHook |-> Unmounted,
                    advReq |-> FALSE, unadvReq |-> FALSE,
                    published |-> 0, final |-> 0, member |-> TRUE]

step(op, who, preHook, published, final, member) ==
    [op |-> op, who |-> who, pre |-> topic, preHook |-> preHook,
     advReq |-> ~topic.isAdvertised /\ topic'.isAdvertised,
     unadvReq |-> topic.isAdvertised /\ ~topic'.isAdvertised,
     published |-> published, final |-> final, member |-> member]

Advertise(o) ==
    /\ topic' = advertise(topic, o)
    /\ lastTopic' = step("advertise", o, Unmounted, 0, 0, TRUE)
    /\ UNCHANGED hooks
    /\ UNCHANGED <<connVars, subVars, ctxVars, peerVars>>

Unadvertise(o) ==
    /\ topic' = unadvertise(topic, o)
    /\ lastTopic' = step("unadvertise", o, Unmounted, 0, 0, TRUE)
    /\ UNCHANGED hooks
    /\ UNCHANGED <<connVars, subVars, ctxVars, peerVars>>

\* publisher.publish(msg) through the function the hook returns
Publish(h) ==
    /\ UNCHANGED <<topic, hooks>>
    /\ lastTopic' = step("publish", h, hooks[h], 1, 0, h \in topic.publishers)
    /\ UNCHANGED <<connVars, subVars, ctxVars, peerVars>>

Subscribe ==
    /\ topic.listeners < MaxListeners
    /\ topic' = subscribe(topic)
    /\ lastTopic' = step("subscribe", "-", Unmounted, 0, 0, TRUE)
    /\ UNCHANGED hooks
    /\ UNCHANGED <<connVars, subVars, ctxVars, peerVars>>

Unsubscribe ==
    /\ topic.listeners > 0
    /\ topic' = unsubscribe(topic)
    /\ lastTopic' = step("unsubscribe", "-", Unmounted, 0, 0, TRUE)
    /\ UNCHANGED hooks
    /\ UNCHANGED <<connVars, subVars, ctxVars, peerVars>>

\* mount of usePublisher: the publish effect, then the advertise effect
MountPublisher(h, ar, msg) ==
    /\ ~hooks[h].mounted
    /\ hooks' = [hooks EXCEPT ![h] = publishEffect(ar, msg)]
    /\ topic' = advertise(topic, h)
    /\ lastTopic' = step("mount", h, hooks[h], effectPublishes(ar, msg), 0,
                         effectPublishes(ar, msg) = 0 \/ h \in topic.publishers)
    /\ UNCHANGED <<connVars, subVars, ctxVars, peerVars>>

\* a render with another autoRepeat or message: cleanup of the publish effect, then the effect
UpdatePublisher(h, ar, msg) ==
    /\ hooks[h].mounted
    /\ ar # hooks[h].autoRepeat \/ msg \/ hooks[h].message
    /\ hooks' = [hooks EXCEPT ![h] =
                     [publishEffect(ar, msg) EXCEPT
                          !.interval = @ \/ clearInterval(hooks[h]).interval]]
    /\ UNCHANGED topic
    /\ lastTopic' = step("update", h, hooks[h],
                         cleanupPublishes(topic, hooks[h]) + effectPublishes(ar, msg),
                         cleanupPublishes(topic, hooks[h]), h \in topic.publishers)
    /\ UNCHANGED <<connVars, subVars, ctxVars, peerVars>>

\* the setInterval callback
IntervalTick(h) ==
    /\ hooks[h].interval
    /\ hooks' = [hooks EXCEPT ![h].intervalStarted = TRUE]
    /\ UNCHANGED topic
    /\ lastTopic' = step("tick", h, hooks[h], 1, 0, h \in topic.publishers)
    /\ UNCHANGED <<connVars, subVars, ctxVars, peerVars>>

\* unmount of usePublisher: cleanup of the publish effect, then of the advertise effect
UnmountPublisher(h) ==
    /\ hooks[h].mounted
    /\ hooks' = [hooks EXCEPT ![h] =
                     [Unmounted EXCEPT !.interval = clearInterval(hooks[h]).interval]]
    /\ topic' = unadvertise(topic, h)
    /\ lastTopic' = step("unmount", h, hooks[h], cleanupPublishes(topic, hooks[h]),
                         cleanupPublishes(topic, hooks[h]), h \in topic.publishers)
    /\ UNCHANGED <<connVars, subVars, ctxVars, peerVars>>

TopicNext ==
    \/ \E o \in DirectOwners : Advertise(o)
    \/ \E o \in DirectOwners : Unadvertise(o)
    \/ \E h \in Hooks : Publish(h)
    \/ Subscribe
    \/ Unsubscribe
    \/ \E h \in Hooks, ar \in BOOLEAN, msg \in BOOLEAN : MountPublisher(h, ar, msg)
    \/ \E h \in Hooks, ar \in BOOLEAN, msg \in BOOLEAN : UpdatePublisher(h, ar, msg)
    \/ \E h \in Hooks : IntervalTick(h)
    \/ \E h \in Hooks : UnmountPublisher(h)

(***************************************************************************)
(* useSubscription: messageCallback of one owner.  A message {value: v} is *)
(* written v; null is written Null.                                        *)
(***************************************************************************)
Null == 0
Msgs == 1..MaxVal
InitialValues == {Null, 1}      \* props.messageInitialValue ?? null
CompareKinds == {"none", "bool", "num"}
TransformKinds == {"none", "evenDouble"}

\* compareFunc as the owner supplies it: (a, b) => a?.value === b.value,
\* or the comparator (a, b) => (a?.value ?? 0) - b.value
compareFunc(kind, o1, o2) ==
    IF kind = "bool" THEN [t |-> "bool", b |-> o1 = o2, n |-> 0]
    ELSE [t |-> "num", b |-> FALSE, n |-> o1 - o2]

\* mutant: any truthy result counts as equal
sameTruthy(res) == (res.t = "bool" /\ res.b) \/ (res.t = "num" /\ res.n # 0)

\* compareRes === true || compareRes === 0
same(res) == (res.t = "bool" /\ res.b) \/ (res.t = "num" /\ res.n = 0)

\* whether messageCallback returns before the callback and updateMessage
suppressed(s, newMsg) ==
    s.compareKind # "none" /\ same(compareFunc(s.compareKind, s.messageRef, newMsg))

\* transformFunc as the owner supplies it: null for an odd value, value * 2 for an even one
transformFunc(kind, msg) == IF msg % 2 = 1 THEN Null ELSE msg * 2

\* mutant: the raw message is handed on although a transform is supplied
callbackArgsRaw(s, newMsg) == IF s.hasCallback THEN <<newMsg>> ELSE <<>>

\* the arguments customCallback is invoked with for a message that is not suppressed
callbackArgs(s, newMsg) ==
    IF ~s.hasCallback THEN <<>>
    ELSE IF s.transformKind # "none"
         THEN LET transformed == transformFunc(s.transformKind, newMsg)
              IN  IF transformed # Null THEN <<transformed>> ELSE <<>>
         ELSE <<newMsg>>

\* setMessage(msg); messageRef.current = msg
updateMessage(s, msg) == [s EXCEPT !.message = msg, !.messageRef = msg]

\* mutant: the message is retained only when the callback was invoked with it
messageCallbackDelivered(s, newMsg) ==
    IF suppressed(s, newMsg)
    THEN [sub |-> s, calls |-> <<>>]
    ELSE [sub |-> IF callbackArgs(s, newMsg) = <<>> THEN s ELSE updateMessage(s, newMsg),
          calls |-> callbackArgs(s, newMsg)]

messageCallback(s, newMsg) ==
    IF suppressed(s, newMsg)
    THEN [sub |-> s, calls |-> <<>>]
    ELSE [sub |-> updateMessage(s, newMsg), calls |-> callbackArgs(s, newMsg)]

NoReceive == [op |-> "init", msg |-> Null, preRef |-> Null, preDelivered |-> Null,
              lastDelivered |-> Null, suppressed |-> FALSE, calls |-> 0]

SubInit ==
    /\ sub \in [compareKind : CompareKinds, transformKind : TransformKinds,
                hasCallback : BOOLEAN, message : InitialValues, messageRef : InitialValues]
    /\ sub.message = sub.messageRef
    /\ inbox = <<>>
    /\ delivered = <<>>
    /\ accepted = <<>>
    /\ lastSub = NoReceive

SubIdle ==
    /\ sub = [compareKind |-> "none", transformKind |-> "none", hasCallback |-> FALSE,
              message |-> Null, messageRef |-> Null]
    /\ inbox = <<>>
    /\ delivered = <<>>
    /\ accepted = <<>>
    /\ lastSub = NoReceive

\* the topic hands an inbound message to messageCallback
Receive(m) ==
    /\ Len(inbox) < MaxMsgs
    /\ LET res == messageCallback(sub, m)
       IN  /\ sub' = res.sub
           /\ inbox' = Append(inbox, m)
           /\ delivered' = delivered \o res.calls
           /\ accepted' = IF suppressed(sub, m) THEN accepted ELSE Append(accepted, m)
           /\ lastSub' = [op |-> "receive", msg |-> m, preRef |-> sub.messageRef,
                          preDelivered |-> lastSub.lastDelivered,
                          lastDelivered |-> IF Len(res.calls) > 0 THEN m
                                            ELSE lastSub.lastDelivered,
                          suppressed |-> suppressed(sub, m), calls |-> Len(res.calls)]
    /\ UNCHANGED <<connVars, topicVars, ctxVars, peerVars>>

SubNext == \E m \in Msgs : Receive(m)

(***************************************************************************)
(* Two useSubscription owners of one topic: the topic hands every inbound  *)
(* message to the messageCallback of each owner, in subscription order.    *)
(***************************************************************************)
IdleSub == [compareKind |-> "none", transformKind |-> "none", hasCallback |-> FALSE,
            message |-> Null, messageRef |-> Null]

PeerIdle ==
    /\ peer = [sub |-> IdleSub, delivered |-> <<>>]
    /\ starts = [own |-> IdleSub, peer |-> IdleSub]

PeerInit ==
    /\ peer \in [sub : [compareKind : {"none", "num"}, transformKind : {"evenDouble"},
                        hasCallback : {TRUE}, message : {Null}, messageRef : {Null}],
                 delivered : {<<>>}]
    /\ starts = [own |-> sub, peer |-> peer.sub]

\* mutant: the comparison baseline is shared through the cached topic
dispatchShared(own, other, m) ==
    LET first == messageCallback(own, m)
        seen == [other EXCEPT !.messageRef = first.sub.messageRef]
        second == messageCallback(seen, m)
    IN  [own |-> first, peer |-> second]

\* each owner's messageCallback closes over its own messageRef and props
dispatch(own, other, m) ==
    [own |-> messageCallback(own, m), peer |-> messageCallback(other, m)]

ReceivePair(m) ==
    /\ Len(inbox) < MaxMsgs
    /\ LET res == dispatch(sub, peer.sub, m)
       IN  /\ sub' = res.own.sub
           /\ peer' = [sub |-> res.peer.sub, delivered |-> peer.delivered \o res.peer.calls]
           /\ inbox' = Append(inbox, m)
           /\ delivered' = delivered \o res.own.calls
           /\ accepted' = IF suppressed(sub, m) THEN accepted ELSE Append(accepted, m)
           /\ lastSub' = [op |-> "receive", msg |-> m, preRef |-> sub.messageRef,
                          preDelivered |-> lastSub.lastDelivered,
                          lastDelivered |-> IF Len(res.own.calls) > 0 THEN m
                                            ELSE lastSub.lastDelivered,
                          suppressed |-> suppressed(sub, m), calls |-> Len(res.own.calls)]
    /\ UNCHANGED starts
    /\ UNCHANGED <<connVars, topicVars, ctxVars>>

PairNext == \E m \in Msgs : ReceivePair(m)

(***************************************************************************)
(* Specifications.                                                         *)
(***************************************************************************)
Init == ConnInit /\ TopicInit /\ SubIdle /\ CtxInit /\ PeerIdle

SpecConn == Init /\ [][ConnNext]_vars

SpecCb == Init /\ [][CbNext]_vars

SpecCtx == Init /\ [][CtxNext]_vars

SpecTopic == Init /\ [][TopicNext]_vars

InitRetry == ConnRetryInit /\ TopicInit /\ SubIdle /\ CtxInit /\ PeerIdle
SpecRetry == InitRetry /\ [][RetryNext]_vars /\ TimerFairness

InitSub == ConnInit /\ TopicInit /\ SubInit /\ CtxInit /\ PeerIdle

SpecSub == InitSub /\ [][SubNext]_vars

InitPair == ConnInit /\ TopicInit /\ SubInit /\ CtxInit /\ PeerInit

SpecPair == InitPair /\ [][PairNext]_vars

(***************************************************************************)
(* Claims about the topic.                                                 *)
(***************************************************************************)

\* C3: in every reachable state the topic is advertised if and only if its
\* set of publisher owners is not empty.
C3_AdvertisedIffOwners == topic.isAdvertised <=> topic.publishers # {}

\* of two owners one has been released and the topic is still advertised
C3_Witness ==
    /\ lastTopic.op = "unadvertise"
    /\ Cardinality(lastTopic.pre.publishers) = 2
    /\ Cardinality(topic.publishers) = 1
    /\ topic.isAdvertised

\* C4: advertise for an owner already in the set leaves the set unchanged and
\* issues no physical advertise; the physical advertise is issued only by a
\* call that finds the set empty.
C4_AdvertiseIdempotent ==
    lastTopic.op \in {"advertise", "mount"} =>
        /\ lastTopic.who \in lastTopic.pre.publishers =>
               /\ topic.publishers = lastTopic.pre.publishers
               /\ ~lastTopic.advReq
        /\ topic.publishers = lastTopic.pre.publishers \cup {lastTopic.who}
        /\ lastTopic.advReq <=> lastTopic.pre.publishers = {}

\* an owner advertises again while another owner is in the set as well
C4_Witness ==
    /\ lastTopic.op = "advertise"
    /\ lastTopic.who \in lastTopic.pre.publishers
    /\ Cardinality(lastTopic.pre.publishers) = 2

\* C5: unadvertise removes exactly that owner and issues the physical
\* unadvertise exactly when the set becomes empty; while another owner remains
\* the topic stays advertised, also on a double release.
C5_UnadvertiseLastOut ==
    lastTopic.op \in {"unadvertise", "unmount"} =>
        /\ topic.publishers = lastTopic.pre.publishers \ {lastTopic.who}
        /\ lastTopic.unadvReq <=>
               (lastTopic.pre.publishers # {} /\ topic.publishers = {})
        /\ topic.publishers # {} => topic.isAdvertised

\* a release of an owner that is not in the set, while others are
C5_Witness ==
    /\ lastTopic.op = "unadvertise"
    /\ lastTopic.who \notin lastTopic.pre.publishers
    /\ lastTopic.pre.publishers # {}
    /\ topic.isAdvertised

\* C6: canBeRemoved is true if and only if the topic has no listeners, is not
\* advertised and has no publisher owner; a topic with no owners and no
\* listeners is evictable, and one more owner or listener makes it not so.
C6_CanBeRemoved ==
    /\ canBeRemoved(topic) <=>
           (topic.listeners = 0 /\ ~topic.isAdvertised /\ topic.publishers = {})
    /\ (topic.listeners = 0 /\ topic.publishers = {}) => canBeRemoved(topic)
    /\ lastTopic.op \in {"advertise", "mount", "subscribe"} => ~canBeRemoved(topic)

\* an evictable topic has just got its only listener
C6_Witness ==
    /\ lastTopic.op = "subscribe"
    /\ canBeRemoved(lastTopic.pre)
    /\ topic.publishers = {}
    /\ ~canBeRemoved(topic)

\* C9: when the periodic timer of an auto-repeating publisher with a message is
\* torn down, the cleanup publishes the pending message once if no tick has
\* fired and the topic is advertised, and publishes nothing otherwise.
C9_FinalPublish ==
    (/\ lastTopic.op \in {"unmount", "update"}
     /\ lastTopic.preHook.autoRepeat
     /\ lastTopic.preHook.message) =>
        lastTopic.final =
            IF ~lastTopic.preHook.intervalStarted /\ lastTopic.pre.isAdvertised
            THEN 1 ELSE 0

\* a teardown before the first tick, with the final publish
C9_WitnessPending ==
    /\ lastTopic.op = "unmount"
    /\ lastTopic.preHook.autoRepeat /\ lastTopic.preHook.message
    /\ ~lastTopic.preHook.intervalStarted
    /\ lastTopic.final = 1

\* C18: an interval tick happens only for a mounted hook with auto-repeat and
\* a message, and publishes exactly once; the publish effect itself publishes
\* nothing with auto-repeat and exactly once without it when a message is set;
\* a teardown publishes at most the one pending message of an auto-repeating
\* hook that has not ticked, and nothing without auto-repeat.
C18_PublishPerTick ==
    LET pre == lastTopic.preHook
        pending == pre.mounted /\ pre.autoRepeat /\ pre.message /\ ~pre.intervalStarted
    IN  /\ lastTopic.op = "tick" =>
               /\ pre.mounted /\ pre.autoRepeat /\ pre.message
               /\ lastTopic.published = 1
        /\ lastTopic.op \in {"mount", "update"} =>
               lastTopic.published - lastTopic.final =
                   IF hooks[lastTopic.who].message /\ ~hooks[lastTopic.who].autoRepeat
                   THEN 1 ELSE 0
        /\ lastTopic.op = "mount" => lastTopic.final = 0
        /\ lastTopic.op = "unmount" => lastTopic.published = lastTopic.final
        /\ lastTopic.op \in {"unmount", "update"} =>
               lastTopic.final <= (IF pending THEN 1 ELSE 0)

\* a second tick of one hook while the other hook is not mounted
C18_Witness ==
    /\ lastTopic.op = "tick"
    /\ lastTopic.preHook.intervalStarted
    /\ lastTopic.published = 1
    /\ \E h \in Hooks : h # lastTopic.who /\ ~hooks[h].mounted

\* C20: every publish of a hook's own lifecycle (the publish of its effect on
\* mount or update, each interval tick, the final publish of its cleanup)
\* happens while the hook's id is in the topic's set of publishers.
C20_PublishWhileMember ==
    (lastTopic.op \in {"mount", "update", "tick", "unmount"} /\ lastTopic.published > 0) =>
        lastTopic.member

(***************************************************************************)
(* Claims about the subscription.  Both comparison functions of the model  *)
(* report two messages equal exactly when their values are equal.          *)
(***************************************************************************)

\* C7 as stated: with a comparison function a message is suppressed (no
\* callback, retained message unchanged) exactly when it equals the last
\* message delivered to the callback; every other message invokes the callback once.
C7_SuppressedIffEqualsLastDelivered ==
    (lastSub.op = "receive" /\ sub.compareKind # "none" /\ sub.hasCallback) =>
        /\ lastSub.msg = lastSub.preDelivered =>
               lastSub.calls = 0 /\ sub.messageRef = lastSub.preRef
        /\ lastSub.msg # lastSub.preDelivered => lastSub.calls = 1

\* C7 amended: with a comparison function a message is suppressed exactly when
\* it equals the retained message (the last message that was not suppressed,
\* at first the initial value); every other message becomes the retained
\* message and invokes the callback once, unless a transform is supplied and
\* its result is absent.
C7_SuppressedIffEqualsRetained ==
    (lastSub.op = "receive" /\ sub.compareKind # "none" /\ sub.hasCallback) =>
        /\ lastSub.msg = lastSub.preRef =>
               lastSub.calls = 0 /\ sub.messageRef = lastSub.preRef
        /\ lastSub.msg # lastSub.preRef =>
               /\ sub.messageRef = lastSub.msg
               /\ lastSub.calls =
                      IF sub.transformKind # "none" /\ lastSub.msg % 2 = 1 THEN 0 ELSE 1

\* {value: 1}, {value: 1}, {value: 2} with equal(a, b) = (a.value === b.value):
\* two invocations
C7_Witness ==
    /\ sub.compareKind = "bool" /\ sub.transformKind = "none" /\ sub.hasCallback
    /\ inbox = <<1, 1, 2>>
    /\ delivered = <<1, 2>>
    /\ lastSub.calls = 1

RECURSIVE evenDoubled(_)
evenDoubled(seq) ==
    IF seq = <<>> THEN <<>>
    ELSE (IF Head(seq) % 2 = 0 THEN <<2 * Head(seq)>> ELSE <<>>) \o evenDoubled(Tail(seq))

\* C8: with a transform and no comparison function the callback receives
\* exactly the present transform results of the inbound messages, in arrival
\* order; with no transform it receives every raw message that is not suppressed.
C8_TransformedInOrder ==
    /\ (sub.hasCallback /\ sub.transformKind # "none" /\ sub.compareKind = "none") =>
           delivered = evenDoubled(inbox)
    /\ (sub.hasCallback /\ sub.transformKind = "none") => delivered = accepted

\* 1, 2, 3, 4 through the transform: 4, 8
C8_Witness ==
    /\ sub.compareKind = "none" /\ sub.transformKind = "evenDouble" /\ sub.hasCallback
    /\ inbox = <<1, 2, 3, 4>>
    /\ delivered = <<4, 8>>

\* C17: an inbound message that the comparison does not suppress becomes the
\* retained message (state and ref), with or without a transform and also
\* when the transform result is absent and nothing is delivered; a suppressed
\* message leaves the retained message as it was.
C17_RetainedIsLastAccepted ==
    lastSub.op = "receive" =>
        /\ sub.message = sub.messageRef
        /\ sub.messageRef = IF lastSub.suppressed THEN lastSub.preRef ELSE lastSub.msg
        /\ accepted # <<>> => sub.messageRef = accepted[Len(accepted)]

\* a message the transform filtered out is retained although nothing was delivered
C17_Witness ==
    /\ lastSub.op = "receive"
    /\ sub.hasCallback /\ sub.transformKind = "evenDouble" /\ sub.compareKind = "bool"
    /\ ~lastSub.suppressed
    /\ lastSub.calls = 0
    /\ lastSub.preRef = 2
    /\ lastSub.msg = 3
    /\ sub.messageRef = 3

\* what an owner that is the only subscriber holds after the messages of seq
RECURSIVE alone(_, _)
alone(s, seq) ==
    IF seq = <<>> THEN [sub |-> s, delivered |-> <<>>]
    ELSE LET before == alone(s, SubSeq(seq, 1, Len(seq) - 1))
             res == messageCallback(before.sub, seq[Len(seq)])
         IN  [sub |-> res.sub, delivered |-> before.delivered \o res.calls]

====
